---- MODULE Spec2Model ----
(***************************************************************************)
(* A model of the state-management core of the theatre repository:        *)
(*   - the state persistence sagas   (src/lb/statePersistor/sagas.tsx)    *)
(*   - the root reducer wrapper      (shared/utils/redux/wrapRootReducer) *)
(*   - the DictAtom reactive atom    (shared/DataVerse/atoms/dict.tsx)    *)
(*   - the prop type constructors    (theatre/core/src/propTypes/index.ts)*)
(*   - the ActiveModeProvider component (shared/components)               *)
(*   - the edit session of WorkspaceListView (scripts/coffee)             *)
(* Each part has its own variables, initial condition and next-state      *)
(* relation; a part's specification leaves the other parts' variables     *)
(* untouched.                                                             *)
(***************************************************************************)
EXTENDS Integers, Sequences, FiniteSets, TLC

VARIABLES
  \* ---- redux store and persistence file
  store,        \* the redux store's state
  file,         \* the persistence file: absent, or its text
  \* ---- statePersistorRootSaga / _loadState
  rootPc,       \* position of the root saga (the yield it is suspended on)
  fileExists,   \* _loadState's local `fileExists`
  content,      \* _loadState's local `content`
  jsonData,     \* _loadState's local `jsonData`
  oldState,     \* _loadState's local `oldState`
  emitted,      \* the actions _loadState has put, in order
  nReads,       \* number of fse.readFile calls made
  \* ---- persistStateChanges
  lastState,    \* the closure variable `lastState`
  task,         \* the task takeLatest is running for the latest action
  io,           \* file operations issued and not yet completed
  observed,     \* origins of the actions the takeLatest watcher has taken
  nDispatched,  \* number of actions dispatched by the application
  burstLen,     \* actions of the current burst (each within the debounce of the previous)
  burstChanges, \* actions of the current burst that changed the projection
  burstWrites,  \* writeFile calls issued for the current burst
  burstDiffers, \* whether the burst's task found the projection changed
  ioBeforeBoot, \* a file operation was issued before bootstrapAction was put
  wrote,        \* a writeFile issued by the watcher has completed
  \* ---- a store whose root reducer is wrapRootReducer(innerReducer)
  rState,       \* the state the wrapped reducer was last given
  rAction,      \* the action it was last given
  rOutcome,     \* what the call did: the state returned or the error thrown
  \* ---- a DictAtom
  internalMap,  \* DictAtom._internalMap
  adopted,      \* the values the atom has adopted and not unadopted, per key
  tappers,      \* number of listeners tapped on the atom's change emitter
  events,       \* the change events emitted by the last call, in order
  lastCall,     \* the last call made on the atom and the map it found
  \* ---- a prop type config
  nodeEnv,      \* process.env.NODE_ENV of the build
  ptCall,       \* the constructor call made: function, default, options, opts
  ptConfig,     \* what the call did: the config returned or the error thrown
  ptSanitized,  \* the last call of the config's sanitize: argument and result
  \* ---- a mounted ActiveModeProvider
  modes,        \* props.modes
  isMac,        \* the platform flag of $shared/utils/isMac
  activeMode,   \* state.activeMode
  isMouseDown,  \* the field _isMouseDown
  modeEvent,    \* the last event handled and the state it found
  \* ---- a WorkspaceListView
  currentEdit,                \* @currentEdit: the node being edited, or null
  currentEditCallBack,        \* @currentEditCallBack: the edit whose store callback it is, or 0
  currentEditDiscardCallBack, \* @currentEditDiscardCallBack, likewise
  scopeActive,  \* whether rootView.kilidScopeForEdit is active
  visible,      \* @visible
  ignored,      \* the nodes moosh has been told to ignore
  started,      \* the nodes _startEdit was called with, in order
  invoked,      \* per edit, the calls made of its store and of its discard callback
  editCall      \* the last method called

persistVars == <<store, file, rootPc, fileExists, content, jsonData, oldState,
                 emitted, nReads, lastState, task, io, observed, nDispatched,
                 burstLen, burstChanges, burstWrites, burstDiffers,
                 ioBeforeBoot, wrote>>

reducerVars == <<rState, rAction, rOutcome>>

dictVars == <<internalMap, adopted, tappers, events, lastCall>>

propVars == <<nodeEnv, ptCall, ptConfig, ptSanitized>>

modeVars == <<modes, isMac, activeMode, isMouseDown, modeEvent>>

editVars == <<currentEdit, currentEditCallBack, currentEditDiscardCallBack,
              scopeActive, visible, ignored, started, invoked, editCall>>

vars == <<persistVars, reducerVars, dictVars, propVars, modeVars, editVars>>

nonPersistVars == <<reducerVars, dictVars, propVars, modeVars, editVars>>
nonReducerVars == <<persistVars, dictVars, propVars, modeVars, editVars>>
nonDictVars == <<persistVars, reducerVars, propVars, modeVars, editVars>>
nonPropVars == <<persistVars, reducerVars, dictVars, modeVars, editVars>>
nonModeVars == <<persistVars, reducerVars, dictVars, propVars, editVars>>
nonEditVars == <<persistVars, reducerVars, dictVars, propVars, modeVars>>

(***************************************************************************)
(* Bounds                                                                  *)
(***************************************************************************)
\* application actions dispatched in one run
MaxActions == 3

(***************************************************************************)
(* Values                                                                  *)
(***************************************************************************)
\* what reading a path that does not exist yields
Undefined == <<"undefined">>

\* the lists of project paths the store may hold at projects.listOfPaths
Lists == { <<>>, <<"/a">>, <<"/a", "/b">> }

\* states of the store: the whitelisted part and two non-whitelisted parts
StoreStates ==
  { [projects |-> [listOfPaths |-> l, active |-> "p1"], ui |-> u] :
      l \in Lists, u \in {"u0", "u1"} }

whitelistOfPartsOfStateToPersist == << <<"projects", "listOfPaths">> >>

\* lodash get on a two-level path
GetIn(o, p) ==
  IF p[1] \in DOMAIN o /\ p[2] \in DOMAIN o[p[1]] THEN o[p[1]][p[2]] ELSE Undefined

\* o with the value at the two-level path p set to v, the rest of o kept
SetIn(o, p, v) ==
  LET inner == IF p[1] \in DOMAIN o THEN o[p[1]] ELSE <<>>
      inner2 == [k \in DOMAIN inner \cup {p[2]} |-> IF k = p[2] THEN v ELSE inner[k]]
  IN  [k \in DOMAIN o \cup {p[1]} |-> IF k = p[1] THEN inner2 ELSE o[k]]

\* lodash pick(object, paths): only the paths, for the paths that exist
RECURSIVE PickFrom(_, _, _)
PickFrom(o, paths, i) ==
  IF i > Len(paths) THEN <<>>
  ELSE LET rest == PickFrom(o, paths, i + 1)
           p == paths[i]
       IN  IF p[1] \in DOMAIN o /\ p[2] \in DOMAIN o[p[1]]
             THEN SetIn(rest, p, o[p[1]][p[2]])
             ELSE rest

\* a faulty variant: the whole object, whatever the paths
pickWholeObject(o, paths) == o

pickPathsFromObject(o, paths) == PickFrom(o, paths, 1)

\* spreadPaths(paths, from, to): `to` with the value at each path taken from `from`
RECURSIVE SpreadFrom(_, _, _, _)
SpreadFrom(paths, from, to, i) ==
  IF i > Len(paths) THEN to
  ELSE SpreadFrom(paths, from, SetIn(to, paths[i], GetIn(from, paths[i])), i + 1)

spreadPaths(paths, from, to) == SpreadFrom(paths, from, to, 1)

deepEqual(a, b) == a = b

(***************************************************************************)
(* The persistence file and JSON                                           *)
(***************************************************************************)
NoFile == [kind |-> "absent"]
EmptyText == [kind |-> "text", chars |-> "", tree |-> <<>>]
Garbage == [kind |-> "text", chars |-> "{oops", tree |-> <<>>]

\* JSON.stringify: the text of a value; `chars` marks it as well-formed JSON
JSONstringify(v) == [kind |-> "text", chars |-> "json", tree |-> v]

ParseError == [ok |-> FALSE]

\* JSON.parse: the value of a well-formed text, a SyntaxError otherwise
JSONparse(t) ==
  IF t.chars = "json" THEN [ok |-> TRUE, value |-> t.tree] ELSE ParseError

\* what the file may hold when the application starts
InitialFiles ==
  { NoFile, EmptyText, Garbage,
    JSONstringify([projects |-> [listOfPaths |-> <<"/a">>]]),
    JSONstringify([projects |-> [listOfPaths |-> <<"/a", "/b">>]]),
    JSONstringify([projects |-> [listOfPaths |-> <<"/a", "/b">>, active |-> "p9"],
                   ui |-> "u9"]),
    JSONstringify([ui |-> "u9"]) }

(***************************************************************************)
(* The store                                                               *)
(***************************************************************************)
bootstrapAction == [type |-> "bootstrap", origin |-> "load"]
setStateAction(payload) == [type |-> "setState", origin |-> "load", payload |-> payload]
\* an action of the application; `payload` is the state its reducer produces
appAction(next) == [type |-> "app", origin |-> "app", payload |-> next]

\* The store's root reducer: setStateAction replaces the state (wrapRootReducer);
\* bootstrapAction is a signal that leaves the persisted parts alone; an
\* application action yields the state the application's reducer computes.
rootReducer(state, action) ==
  IF action.type = "setState" THEN action.payload
  ELSE IF action.type = "bootstrap" THEN state
  ELSE action.payload

(***************************************************************************)
(* persistStateChanges: the takeLatest watcher                             *)
(***************************************************************************)
\* the value of a local that has not been assigned yet
NoState == [unset |-> TRUE]
IdleTask == [pc |-> "idle", id |-> 0, newState |-> NoState]

\* a faulty variant: the watcher forked before _loadState is called
WatchingFromStart == rootPc # "crashed"

\* takeLatest('*', worker) is registered once persistStateChanges has been forked
Watching == rootPc = "watching"

\* a faulty variant: a running worker is left to finish and the new action is dropped
KeepRunningTask(t, id) ==
  IF t.pc = "idle" THEN [pc |-> "delay", id |-> id, newState |-> NoState] ELSE t

\* takeLatest: the task of the previous action is cancelled, a new one is forked;
\* the new worker suspends on delay(2)
TakeLatest(t, id) == [pc |-> "delay", id |-> id, newState |-> NoState]

\* The store reduces `action`; if the watcher is registered it takes the action.
\* id is the number of the action among those dispatched.
Put(action, id) ==
  /\ store' = rootReducer(store, action)
  /\ IF Watching
       THEN LET changed == ~deepEqual(
                               pickPathsFromObject(store, whitelistOfPartsOfStateToPersist),
                               pickPathsFromObject(store', whitelistOfPartsOfStateToPersist))
                sameBurst == task.pc = "delay"
            IN  /\ task' = TakeLatest(task, id)
                /\ observed' = observed \cup {action.origin}
                /\ burstLen' = IF sameBurst THEN burstLen + 1 ELSE 1
                /\ burstChanges' = (IF sameBurst THEN burstChanges ELSE 0)
                                     + (IF changed THEN 1 ELSE 0)
                /\ burstWrites' = IF sameBurst THEN burstWrites ELSE 0
                /\ burstDiffers' = FALSE
       ELSE UNCHANGED <<task, observed, burstLen, burstChanges, burstWrites, burstDiffers>>

\* the application dispatches an action
Dispatch ==
  /\ nDispatched < MaxActions
  /\ \E next \in StoreStates : Put(appAction(next), nDispatched + 1)
  /\ nDispatched' = nDispatched + 1
  /\ UNCHANGED <<file, rootPc, fileExists, content, jsonData, oldState, emitted,
                 nReads, lastState, io, ioBeforeBoot, wrote>>
  /\ UNCHANGED nonPersistVars

BootstrapPut == \E i \in 1..Len(emitted) : emitted[i].type = "bootstrap"

\* a faulty variant: the snapshots compared by identity, which never holds of two
\* objects that pick has just built
differsByIdentity(last, new) == TRUE

\* the worker's test `!deepEqual(lastState, newState)`
differs(last, new) == ~deepEqual(last, new)

\* what the worker does when delay(2) has elapsed: select, pick, compare
\* and, if the projection changed, call persistNewState, which calls ensureFile
DelayElapsed ==
  /\ task.pc = "delay"
  /\ LET newState == pickPathsFromObject(store, whitelistOfPartsOfStateToPersist)
     IN  IF differs(lastState, newState)
           THEN /\ task' = [task EXCEPT !.pc = "ensureFile", !.newState = newState]
                /\ io' = io \cup {[owner |-> task.id, kind |-> "ensureFile",
                                   text |-> EmptyText]}
                /\ burstDiffers' = TRUE
                /\ ioBeforeBoot' = (ioBeforeBoot \/ ~BootstrapPut)
           ELSE /\ task' = [task EXCEPT !.pc = "idle"]
                /\ UNCHANGED <<io, burstDiffers, ioBeforeBoot>>
  /\ UNCHANGED <<store, file, rootPc, fileExists, content, jsonData, oldState,
                 emitted, nReads, lastState, observed, nDispatched, burstLen,
                 burstChanges, burstWrites, wrote>>
  /\ UNCHANGED nonPersistVars

\* fse.ensureFile: creates the file, empty, if it is missing
ensureFile(f) == IF f.kind = "absent" THEN EmptyText ELSE f

\* the worker's fse.ensureFile completes: persistNewState stringifies and calls writeFile
EnsureFileDone ==
  /\ task.pc = "ensureFile"
  /\ \E op \in io :
       /\ op.owner = task.id /\ op.kind = "ensureFile"
       /\ file' = ensureFile(file)
       /\ io' = (io \ {op}) \cup {[owner |-> task.id, kind |-> "writeFile",
                                   text |-> JSONstringify(task.newState)]}
  /\ task' = [task EXCEPT !.pc = "writeFile"]
  /\ burstWrites' = burstWrites + 1
  /\ UNCHANGED <<store, rootPc, fileExists, content, jsonData, oldState, emitted,
                 nReads, lastState, observed, nDispatched, burstLen, burstChanges,
                 burstDiffers, ioBeforeBoot, wrote>>
  /\ UNCHANGED nonPersistVars

\* a faulty variant: the snapshot left as it was
lastStateKept(last, newState) == last

\* `lastState = newState`, once persistNewState has returned
lastStateAfterWrite(last, newState) == newState

\* the worker's fse.writeFile completes: persistNewState returns, lastState = newState
WriteFileDone ==
  /\ task.pc = "writeFile"
  /\ \E op \in io :
       /\ op.owner = task.id /\ op.kind = "writeFile"
       /\ file' = op.text
       /\ io' = io \ {op}
  /\ lastState' = lastStateAfterWrite(lastState, task.newState)
  /\ task' = [task EXCEPT !.pc = "idle"]
  /\ wrote' = TRUE
  /\ UNCHANGED <<store, rootPc, fileExists, content, jsonData, oldState, emitted,
                 nReads, observed, nDispatched, burstLen, burstChanges, burstWrites,
                 burstDiffers, ioBeforeBoot>>
  /\ UNCHANGED nonPersistVars

\* A file operation whose worker was cancelled completes: cancelling the saga task
\* does not abort the fs call it was waiting for; its result is dropped.
OrphanEnsureFileDone ==
  /\ \E op \in io :
       /\ op.kind = "ensureFile"
       /\ ~(op.owner = task.id /\ task.pc = "ensureFile")
       /\ file' = ensureFile(file)
       /\ io' = io \ {op}
  /\ UNCHANGED <<store, rootPc, fileExists, content, jsonData, oldState, emitted,
                 nReads, lastState, task, observed, nDispatched, burstLen,
                 burstChanges, burstWrites, burstDiffers, ioBeforeBoot, wrote>>
  /\ UNCHANGED nonPersistVars

OrphanWriteFileDone ==
  /\ \E op \in io :
       /\ op.kind = "writeFile"
       /\ ~(op.owner = task.id /\ task.pc = "writeFile")
       /\ file' = op.text
       /\ io' = io \ {op}
  /\ wrote' = TRUE
  /\ UNCHANGED <<store, rootPc, fileExists, content, jsonData, oldState, emitted,
                 nReads, lastState, task, observed, nDispatched, burstLen,
                 burstChanges, burstWrites, burstDiffers, ioBeforeBoot>>
  /\ UNCHANGED nonPersistVars

(***************************************************************************)
(* statePersistorRootSaga and _loadState                                   *)
(***************************************************************************)
\* a faulty variant: the test of fileExists inverted
AfterPathExistsInverted(exists) == IF exists THEN "putBootstrap" ELSE "readFile"

\* `if (!fileExists) return yield put(bootstrapAction())`
AfterPathExists(exists) == IF exists THEN "readFile" ELSE "putBootstrap"

\* const fileExists = yield call(fse.pathExists, pathToPersistenceFile)
LoadPathExists ==
  /\ rootPc = "pathExists"
  /\ fileExists' = (file.kind # "absent")
  /\ rootPc' = AfterPathExists(fileExists')
  /\ UNCHANGED <<store, file, content, jsonData, oldState, emitted, nReads,
                 lastState, task, io, observed, nDispatched, burstLen,
                 burstChanges, burstWrites, burstDiffers, ioBeforeBoot, wrote>>
  /\ UNCHANGED nonPersistVars

\* const content = yield call(fse.readFile, ...); reading a missing file rejects,
\* and the rejection is not caught by _loadState
LoadReadFile ==
  /\ rootPc = "readFile"
  /\ nReads' = nReads + 1
  /\ IF file.kind = "absent"
       THEN rootPc' = "crashed" /\ UNCHANGED content
       ELSE rootPc' = "parse" /\ content' = file
  /\ UNCHANGED <<store, file, fileExists, jsonData, oldState, emitted, lastState,
                 task, io, observed, nDispatched, burstLen, burstChanges,
                 burstWrites, burstDiffers, ioBeforeBoot, wrote>>
  /\ UNCHANGED nonPersistVars

\* a faulty variant: JSON.parse outside any try/catch: the SyntaxError leaves _loadState
AfterParseUncaught(parsed) == IF parsed.ok THEN "select" ELSE "crashed"

\* try { jsonData = JSON.parse(content) } catch (e) { ...; return yield put(bootstrapAction()) }
AfterParse(parsed) == IF parsed.ok THEN "select" ELSE "putBootstrap"

LoadParse ==
  /\ rootPc = "parse"
  /\ jsonData' = JSONparse(content)
  /\ rootPc' = AfterParse(jsonData')
  /\ UNCHANGED <<store, file, fileExists, content, oldState, emitted, nReads,
                 lastState, task, io, observed, nDispatched, burstLen,
                 burstChanges, burstWrites, burstDiffers, ioBeforeBoot, wrote>>
  /\ UNCHANGED nonPersistVars

\* const oldState = yield select()
LoadSelect ==
  /\ rootPc = "select"
  /\ oldState' = store
  /\ rootPc' = "putSetState"
  /\ UNCHANGED <<store, file, fileExists, content, jsonData, emitted, nReads,
                 lastState, task, io, observed, nDispatched, burstLen,
                 burstChanges, burstWrites, burstDiffers, ioBeforeBoot, wrote>>
  /\ UNCHANGED nonPersistVars

\* a faulty variant: the file's data and the in-memory state passed the other way round
newStateSwapped(json, old) == spreadPaths(whitelistOfPartsOfStateToPersist, old, json)

\* const newState = spreadPaths(whitelistOfPartsOfStateToPersist, jsonData, oldState)
newStateOfLoad(json, old) == spreadPaths(whitelistOfPartsOfStateToPersist, json, old)

\* yield put(setStateAction(newState))
LoadPutSetState ==
  /\ rootPc = "putSetState"
  /\ LET a == setStateAction(newStateOfLoad(jsonData.value, oldState))
     IN  /\ Put(a, 0)
         /\ emitted' = Append(emitted, a)
  /\ rootPc' = "putBootstrap"
  /\ UNCHANGED <<file, fileExists, content, jsonData, oldState, nReads, lastState,
                 io, nDispatched, ioBeforeBoot, wrote>>
  /\ UNCHANGED nonPersistVars

\* return yield put(bootstrapAction()): _loadState returns to the root saga
LoadPutBootstrap ==
  /\ rootPc = "putBootstrap"
  /\ Put(bootstrapAction, 0)
  /\ emitted' = Append(emitted, bootstrapAction)
  /\ rootPc' = "fork"
  /\ UNCHANGED <<file, fileExists, content, jsonData, oldState, nReads, lastState,
                 io, nDispatched, ioBeforeBoot, wrote>>
  /\ UNCHANGED nonPersistVars

\* yield fork(persistStateChanges): lastState = pick(yield select(), whitelist),
\* then takeLatest is registered
ForkPersistStateChanges ==
  /\ rootPc = "fork"
  /\ lastState' = pickPathsFromObject(store, whitelistOfPartsOfStateToPersist)
  /\ rootPc' = "watching"
  /\ UNCHANGED <<store, file, fileExists, content, jsonData, oldState, emitted,
                 nReads, task, io, observed, nDispatched, burstLen, burstChanges,
                 burstWrites, burstDiffers, ioBeforeBoot, wrote>>
  /\ UNCHANGED nonPersistVars

(***************************************************************************)
(* JavaScript values, as far as the reducer wrapper tells them apart       *)
(***************************************************************************)
JsUndefined == [t |-> "undefined"]
JsNull == [t |-> "null"]
JsNumber(n) == [t |-> "number", n |-> n]
\* a plain object: a mapping from some keys to numbers
JsObject(m) == [t |-> "object", m |-> m]
\* an array of keys
JsArray(a) == [t |-> "array", a |-> a]

typeof(v) == IF v.t \in {"null", "object", "array"} THEN "object" ELSE v.t

\* the result of NaN-producing arithmetic (a reducer applied to a missing value)
NaN == 0 - 1

\* the keys of the states' objects
ObjKeys == {"x", "y", "z"}

\* leaves above this value are not produced by the multiReduce steps of a run
MaxLeaf == 4

EmptyMap == [k \in {} |-> 0]

\* a faulty variant: {...b, ...a}, the first object's values winning
SpreadMapsFirstWins(a, b) ==
  [k \in DOMAIN a \cup DOMAIN b |-> IF k \in DOMAIN a THEN a[k] ELSE b[k]]

\* {...a, ...b} on the mappings of two plain objects
SpreadMaps(a, b) ==
  [k \in DOMAIN a \cup DOMAIN b |-> IF k \in DOMAIN b THEN b[k] ELSE a[k]]

\* {...(state || {})}: a falsy state reads as the empty object, and the spread of a
\* value that is no object has no keys
OrEmptyObject(v) == IF v.t = "object" THEN v.m ELSE EmptyMap

\* a faulty variant: pick without its list of keys, the whole object
pickAll(obj, keys) == obj

\* lodash pick(object, keys): the listed keys the object has
pick(obj, keys) ==
  JsObject([k \in {keys.a[i] : i \in 1..Len(keys.a)} \cap DOMAIN obj.m |-> obj.m[k]])

(***************************************************************************)
(* The wrapped reducer's argument: an application reducer                  *)
(***************************************************************************)
mergeStateActionType == "mergeStateAction"
setStateActionType == "setStateAction"
resetStateActionType == "resetStateAction"
multiReduceStateActionType == "multiReduceStateAction"

JsAction(type, payload) == [t |-> "object", type |-> type, payload |-> payload]

innerInitialState == JsObject([x |-> 1, y |-> 2])

\* An application reducer: its initial state is {x: 1, y: 2}; "app/setZ" stores
\* its payload under z; it returns the state unchanged for anything else.
innerReducer(state, action) ==
  LET s == IF state = JsUndefined THEN innerInitialState ELSE state
  IN  IF typeof(action) = "object" /\ action # JsNull /\ action.type = "app/setZ"
           /\ s.t = "object"
        THEN JsObject(SpreadMaps(s.m, [z |-> action.payload.n]))
        ELSE s

(***************************************************************************)
(* wrapRootReducer                                                         *)
(***************************************************************************)
Returned(v, calls) == [kind |-> "returned", value |-> v, innerCalls |-> calls]
Threw(calls) == [kind |-> "threw", value |-> JsUndefined, innerCalls |-> calls]
NoCall == [kind |-> "none", value |-> JsUndefined, innerCalls |-> 0]

\* the reducers a multiReduceStateAction pair may carry
ApplyPairReducer(name, v) ==
  IF v = NaN THEN NaN
  ELSE IF name = "inc" THEN v + 1
  ELSE v * 2

\* lodash/fp update(path, fn, object) for a one-key path: the object with fn
\* applied to the value at the key (undefined when it has none); a value that is
\* no object is returned as it is
update(path, fn, acc) ==
  IF acc.t # "object" THEN acc
  ELSE JsObject(SpreadMaps(acc.m,
         [k \in {path} |-> IF path \in DOMAIN acc.m
                             THEN ApplyPairReducer(fn, acc.m[path])
                             ELSE NaN]))

\* pairs.reduce((acc, pair) => update(pair.path, pair.reducer, acc), state)
RECURSIVE ReducePairs(_, _, _)
ReducePairs(pairs, i, acc) ==
  IF i > Len(pairs) THEN acc
  ELSE ReducePairs(pairs, i + 1, update(pairs[i].path, pairs[i].reducer, acc))

\* a faulty variant: the pairs folded from the right
multiReduceRight(pairs, state) ==
  ReducePairs([i \in 1..Len(pairs) |-> pairs[Len(pairs) + 1 - i]], 1, state)

\* the multiReduceStateAction branch: the pairs folded from the left over the state
multiReduce(pairs, state) == ReducePairs(pairs, 1, state)

\* a faulty variant: setStateAction merging its payload into the state
setStateMerging(state, action) ==
  Returned(JsObject(SpreadMaps(OrEmptyObject(state), OrEmptyObject(action.payload))), 0)

\* the setStateAction branch
setState(state, action) == Returned(action.payload, 0)

\* a faulty variant: the inner reducer given no state
delegateWithoutState(state, action) == Returned(innerReducer(JsUndefined, action), 1)

\* `return reducer(state, action)`: every action the wrapper does not know
delegate(state, action) == Returned(innerReducer(state, action), 1)

\* a faulty variant: the state never tested
StateNeverRejected(state) == FALSE

\* the test both the merge and the reset branch make of the current state
StateIsRejected(state) ==
  ~(state # JsNull /\ typeof(state) = "object") \/ typeof(state) = "undefined"

wrapRootReducer(state, action) ==
  IF typeof(action) = "object" /\ action # JsNull
    THEN IF action.type = mergeStateActionType
           THEN IF ~(action.payload # JsNull /\ typeof(action.payload) = "object")
                  THEN Threw(0)
                ELSE IF StateIsRejected(state)
                  THEN Threw(0)
                ELSE Returned(JsObject(SpreadMaps(OrEmptyObject(state),
                                                  action.payload.m)), 0)
         ELSE IF action.type = setStateActionType
           THEN setState(state, action)
         ELSE IF action.type = resetStateActionType
           THEN LET initialState == innerReducer(JsUndefined, action)
                IN  IF StateIsRejected(state)
                      THEN Threw(1)
                    ELSE IF action.payload.t = "array"
                      THEN Returned(JsObject(SpreadMaps(OrEmptyObject(state),
                                       pick(initialState, action.payload).m)), 1)
                    ELSE Returned(initialState, 1)
         ELSE IF action.type = multiReduceStateActionType
           THEN Returned(multiReduce(action.payload.a, state), 0)
         ELSE delegate(state, action)
    ELSE delegate(state, action)

(***************************************************************************)
(* A store reduced by wrapRootReducer(innerReducer)                        *)
(***************************************************************************)
\* the store's state: what the last call returned, or its input if it threw
CurrentState == IF rOutcome.kind = "returned" THEN rOutcome.value ELSE rState

\* the states a run may start from
ReducerStates ==
  { JsUndefined, JsNull, JsNumber(5),
    JsObject(EmptyMap), JsObject([x |-> 1]), JsObject([x |-> 99, y |-> 99]) }

\* the payloads of the generic actions
ObjectPayloads ==
  { JsObject(EmptyMap), JsObject([z |-> 3]), JsObject([x |-> 2]),
    JsObject([x |-> 3, y |-> 1]) }
OtherPayloads == { JsUndefined, JsNull, JsNumber(7) }
KeyArrays == { JsArray(<<>>), JsArray(<<"x">>), JsArray(<<"y", "z">>) }
Pairs == [path : {"x", "z"}, reducer : {"inc", "double"}]
PairArrays ==
  { JsArray(<<>>) } \cup { JsArray(<<p>>) : p \in Pairs }
    \cup { JsArray(<<p, q>>) : p \in Pairs, q \in Pairs }

\* the leaves of a value stay within the bound
WithinLeafBound(v) ==
  v.t = "object" => \A k \in DOMAIN v.m : v.m[k] <= MaxLeaf \/ v.m[k] = 99

\* the store is given `action`
Reduce(action) ==
  /\ rState' = CurrentState
  /\ rAction' = action
  /\ rOutcome' = wrapRootReducer(CurrentState, action)

DispatchMergeState ==
  /\ \E payload \in ObjectPayloads \cup OtherPayloads :
       Reduce(JsAction(mergeStateActionType, payload))
  /\ UNCHANGED nonReducerVars

DispatchSetState ==
  /\ \E payload \in ObjectPayloads \cup OtherPayloads :
       Reduce(JsAction(setStateActionType, payload))
  /\ UNCHANGED nonReducerVars

DispatchResetState ==
  /\ \E payload \in KeyArrays \cup OtherPayloads :
       Reduce(JsAction(resetStateActionType, payload))
  /\ UNCHANGED nonReducerVars

DispatchMultiReduceState ==
  /\ \E payload \in PairArrays :
       /\ WithinLeafBound(wrapRootReducer(CurrentState,
                             JsAction(multiReduceStateActionType, payload)).value)
       /\ Reduce(JsAction(multiReduceStateActionType, payload))
  /\ UNCHANGED nonReducerVars

\* an action of the application, which the wrapper knows nothing of
DispatchAppAction ==
  /\ \E a \in {JsAction("app/setZ", JsNumber(1)), JsAction("app/setZ", JsNumber(2)),
               JsAction("app/other", JsUndefined)} : Reduce(a)
  /\ UNCHANGED nonReducerVars

\* something that is no object given as the action
DispatchNonObject ==
  /\ \E a \in {JsUndefined, JsNull, JsNumber(0)} : Reduce(a)
  /\ UNCHANGED nonReducerVars

(***************************************************************************)
(* DictAtom                                                                *)
(***************************************************************************)
\* the keys of the atom's mapping, in the order object literals list them
DictKeys == <<"a", "b">>
DictKeySet == {DictKeys[i] : i \in 1..Len(DictKeys)}

\* the values stored: two atoms and a falsy primitive
DictValues == {"atom1", "atom2", "0"}
\* what prop() returns for a key the atom does not have
undefined == "undefined"
Truthy(v) == v \notin {"0", undefined}

\* the object literals given to the constructor and to assign
DictObjects == UNION { [ks -> DictValues] : ks \in SUBSET DictKeySet }

\* the keys of an object, in order
RECURSIVE KeysFrom(_, _)
KeysFrom(o, i) ==
  IF i > Len(DictKeys) THEN <<>>
  ELSE (IF DictKeys[i] \in DOMAIN o THEN <<DictKeys[i]>> ELSE <<>>) \o KeysFrom(o, i + 1)

KeysOf(o) == KeysFrom(o, 1)

SeqToSet(q) == {q[i] : i \in 1..Len(q)}

\* prop(key): own-property lookup in _internalMap
prop(map, key) == IF key \in DOMAIN map THEN map[key] ELSE undefined

\* _adopt(key, value) and _unadopt(key, value) of AbstractCompositeAtom: the atom
\* becomes the sole owner of the value, under the key, and releases the value; the
\* record of ownership belongs to the value, which has one owner or none
Adopt(owned, key, value) == {p \in owned : p[2] # value} \cup {<<key, value>>}
Unadopt(owned, key, value) == {p \in owned : p[2] # value}

\* _assignInitialValue(o): every entry stored and adopted
RECURSIVE AdoptAll(_, _, _, _)
AdoptAll(owned, o, ks, i) ==
  IF i > Len(ks) THEN owned
  ELSE AdoptAll(Adopt(owned, ks[i], o[ks[i]]), o, ks, i + 1)

\* forEach(overriddenRefs, (v, k) => { if (v) this._unadopt(k, v) })
RECURSIVE UnadoptOverridden(_, _, _, _)
UnadoptOverridden(owned, refs, ks, i) ==
  IF i > Len(ks) THEN owned
  ELSE UnadoptOverridden(
         IF Truthy(refs[ks[i]]) THEN Unadopt(owned, ks[i], refs[ks[i]]) ELSE owned,
         refs, ks, i + 1)

\* the keys of o that _internalMap does not have, in o's order
RECURSIVE AddedKeysFrom(_, _, _)
AddedKeysFrom(map, ks, i) ==
  IF i > Len(ks) THEN <<>>
  ELSE (IF ks[i] \notin DOMAIN map THEN <<ks[i]>> ELSE <<>>) \o AddedKeysFrom(map, ks, i + 1)

\* a faulty variant: every key of o reported as added
allKeysAdded(map, o) == KeysOf(o)

\* the local addedKeys of _change
addedKeysOf(map, o) == AddedKeysFrom(map, KeysOf(o), 1)

\* the local overriddenRefs of _change: the values the keys of o and the keys to
\* delete hold before the change
OverriddenRefs(map, o, keysToDelete) ==
  [k \in DOMAIN o \cup SeqToSet(keysToDelete) |-> prop(map, k)]

\* the value _change gives the event's overriddenRefs field: `overriddenRefs: o`
EventOverriddenRefs(map, o, keysToDelete) == o

\* a faulty variant: the entries of o stored, the keys to delete left in place
ChangedMapKeepingDeleted(map, o, keysToDelete) ==
  [k \in DOMAIN map \cup DOMAIN o |-> IF k \in DOMAIN o THEN o[k] ELSE map[k]]

\* _internalMap after _change: the keys to delete removed, then the entries of o stored
ChangedMap(map, o, keysToDelete) ==
  LET kept == [k \in DOMAIN map \ SeqToSet(keysToDelete) |-> map[k]]
  IN  [k \in DOMAIN kept \cup DOMAIN o |-> IF k \in DOMAIN o THEN o[k] ELSE kept[k]]

\* a faulty variant: the event emitted whether or not anyone listens
emitsAlways == TRUE

hasTappers == tappers > 0

\* a faulty variant: the event emitted before the map is changed
mapBeforeChange(before, after) == before

\* the map a listener reads during the event: the emit is the last statement of
\* _change, after the deletions and the stores
mapAtEmit(before, after) == after

\* keys(): Object.keys(_internalMap)
keys(map) == KeysOf(map)

\* _change(o, keysToDelete), called as `op` with argument `arg`
Change(o, keysToDelete, op, arg) ==
  LET addedKeys == addedKeysOf(internalMap, o)
      overriddenRefs == OverriddenRefs(internalMap, o, keysToDelete)
      released == UnadoptOverridden(adopted, overriddenRefs, KeysOf(overriddenRefs), 1)
      newMap == ChangedMap(internalMap, o, keysToDelete)
  IN  /\ internalMap' = newMap
      /\ adopted' = AdoptAll(released, o, KeysOf(o), 1)
      /\ events' = IF hasTappers
                     THEN << [overriddenRefs |-> EventOverriddenRefs(internalMap, o, keysToDelete),
                              deletedKeys |-> keysToDelete,
                              addedKeys |-> addedKeys,
                              mapSeen |-> mapAtEmit(internalMap, newMap),
                              adoptedSeen |-> AdoptAll(released, o, KeysOf(o), 1)] >>
                     ELSE <<>>
      /\ lastCall' = [op |-> op, arg |-> arg, before |-> internalMap,
                      listening |-> hasTappers]
      /\ UNCHANGED tappers

\* assign(o)
Assign ==
  /\ \E o \in DictObjects : Change(o, <<>>, "assign", o)
  /\ UNCHANGED nonDictVars

\* setProp(key, value): assign({[key]: value})
SetProp ==
  /\ \E k \in DictKeySet, v \in DictValues :
       Change([x \in {k} |-> v], <<>>, "setProp", [x \in {k} |-> v])
  /\ UNCHANGED nonDictVars

\* deleteProp(key): _change({}, [key])
DeleteProp ==
  /\ \E k \in DictKeySet :
       Change([x \in {} |-> undefined], <<k>>, "deleteProp", [x \in {k} |-> undefined])
  /\ UNCHANGED nonDictVars

\* listeners tapped on one atom
MaxTappers == 2

\* a listener taps the atom's change emitter
Tap ==
  /\ tappers < MaxTappers
  /\ tappers' = tappers + 1
  /\ events' = <<>>
  /\ lastCall' = [op |-> "tap", arg |-> [x \in {} |-> undefined], before |-> internalMap,
                  listening |-> hasTappers]
  /\ UNCHANGED <<internalMap, adopted>>
  /\ UNCHANGED nonDictVars

\* a listener untaps
Untap ==
  /\ tappers > 0
  /\ tappers' = tappers - 1
  /\ events' = <<>>
  /\ lastCall' = [op |-> "untap", arg |-> [x \in {} |-> undefined], before |-> internalMap,
                  listening |-> hasTappers]
  /\ UNCHANGED <<internalMap, adopted>>
  /\ UNCHANGED nonDictVars

(***************************************************************************)
(* Prop types: the values given to the constructors and to sanitize        *)
(***************************************************************************)
JsString(chars) == [t |-> "string", s |-> chars]
JsBoolean(b) == [t |-> "boolean", b |-> b]
\* a number that is not finite
JsNaN == [t |-> "number", nan |-> TRUE]
JsFunction(name) == [t |-> "function", name |-> name]
\* an Rgba colour
JsRgba == [t |-> "object", r |-> 1, g |-> 0, b |-> 0, alpha |-> 1]

\* isFinite, of a value whose typeof is "number"
isFinite(v) == v # JsNaN

\* the truthiness of a value
JsTruthy(v) ==
  /\ v.t \notin {"undefined", "null"}
  /\ v \notin {JsNaN, JsNumber(0), JsString(<<>>), JsBoolean(FALSE)}

\* an opts object: every field holds a value or is absent from the object
Absent == [t |-> "absent"]
OptsFields == {"label", "range", "nudgeMultiplier", "nudgeFn", "sanitize"}
JsOpts(o) == [t |-> "object", o |-> o]

\* Object.prototype.hasOwnProperty.call(opts, field), of an opts that is an object
hasOwnProperty(opts, field) == opts.o[field] # Absent

\* opts?.field
OptField(opts, field) ==
  IF opts.t = "object" /\ opts.o[field] # Absent THEN opts.o[field] ELSE JsUndefined

\* String.prototype.trim on a sequence of characters
RECURSIVE trimStart(_)
trimStart(chars) ==
  IF chars # <<>> /\ Head(chars) = " " THEN trimStart(Tail(chars)) ELSE chars

RECURSIVE trimEnd(_)
trimEnd(chars) ==
  IF chars # <<>> /\ chars[Len(chars)] = " "
    THEN trimEnd(SubSeq(chars, 1, Len(chars) - 1))
    ELSE chars

trim(chars) == trimEnd(trimStart(chars))

\* the sanitizers a caller may give as opts.sanitize
callSanitizer(fn, v) ==
  IF fn.name = "reject" THEN JsUndefined
  ELSE IF typeof(v) = "number" /\ isFinite(v) /\ v.n > 2 THEN JsNumber(2)
  ELSE v

(***************************************************************************)
(* Prop types: the constructors                                            *)
(***************************************************************************)
\* validateCommonOpts(fnCallSignature, opts): whether it throws
validateCommonOpts(env, opts) ==
  IF env # "production"
    THEN IF opts = JsUndefined THEN FALSE
         ELSE IF typeof(opts) # "object" \/ opts = JsNull THEN TRUE
         ELSE IF hasOwnProperty(opts, "label")
           THEN LET label == opts.o.label
                IN  IF typeof(label) # "string" THEN TRUE
                    ELSE IF Len(trim(label.s)) # Len(label.s) THEN TRUE
                    ELSE Len(label.s) = 0
         ELSE FALSE
    ELSE FALSE

PtThrew == [kind |-> "threw"]
NoOptions == [k \in {} |-> JsUndefined]

\* the config a constructor returns; its sanitize closes over opts and options
PtConfig(type, defaultValue, opts, options) ==
  [kind |-> "config", type |-> type, default |-> defaultValue,
   label |-> OptField(opts, "label"), opts |-> opts, options |-> options]

\* the tests number makes of opts.range: whether one of them throws
rangeThrows(range) ==
  \/ range.t # "array"
  \/ Len(range.a) # 2
  \/ ~(\A i \in 1..Len(range.a) : typeof(range.a[i]) = "number" /\ range.a[i] # JsNaN)
  \/ range.a[1].n >= range.a[2].n

\* the development checks of number(defaultValue, opts): whether one of them throws
numberThrows(env, defaultValue, opts) ==
  /\ env # "production"
  /\ \/ validateCommonOpts(env, opts)
     \/ typeof(defaultValue) # "number" \/ ~isFinite(defaultValue)
     \/ /\ typeof(opts) = "object" /\ opts # JsNull
        /\ \/ hasOwnProperty(opts, "range") /\ rangeThrows(opts.o.range)
           \/ /\ hasOwnProperty(opts, "nudgeMultiplier")
              /\ \/ typeof(opts.o.nudgeMultiplier) # "number"
                 \/ ~isFinite(opts.o.nudgeMultiplier)
           \/ /\ hasOwnProperty(opts, "nudgeFn")
              /\ typeof(OptField(opts, "nudgeFn")) # "function"

number(env, defaultValue, opts) ==
  IF numberThrows(env, defaultValue, opts) THEN PtThrew
  ELSE PtConfig("number", defaultValue, opts, NoOptions)

rgba(env, defaultValue, opts) ==
  IF env # "production" /\ validateCommonOpts(env, opts) THEN PtThrew
  ELSE PtConfig("rgba", defaultValue, opts, NoOptions)

boolean(env, defaultValue, opts) ==
  IF env # "production"
       /\ (validateCommonOpts(env, opts) \/ typeof(defaultValue) # "boolean")
    THEN PtThrew
    ELSE PtConfig("boolean", defaultValue, opts, NoOptions)

string(env, defaultValue, opts) ==
  IF env # "production"
       /\ (validateCommonOpts(env, opts) \/ typeof(defaultValue) # "string")
    THEN PtThrew
    ELSE PtConfig("string", defaultValue, opts, NoOptions)

stringLiteral(env, defaultValue, options, opts) ==
  PtConfig("stringLiteral", defaultValue, opts, options)

(***************************************************************************)
(* Prop types: the sanitizers of the configs                               *)
(***************************************************************************)
\* what a call of sanitize did: the value returned and the calls of opts.sanitize
Sanitized(v, calls) == [value |-> v, customCalls |-> calls]

sanitizeNumber(value) ==
  IF typeof(value) = "number" /\ isFinite(value) THEN value ELSE JsUndefined

\* a faulty variant: opts.sanitize given the value before it is known to be a number
numberSanitizeCustomFirst(opts, val) ==
  IF ~JsTruthy(OptField(opts, "sanitize")) THEN Sanitized(sanitizeNumber(val), 0)
  ELSE Sanitized(sanitizeNumber(callSanitizer(OptField(opts, "sanitize"), val)), 1)

\* the sanitize of a number config
numberSanitize(opts, val) ==
  IF ~JsTruthy(OptField(opts, "sanitize")) THEN Sanitized(sanitizeNumber(val), 0)
  ELSE LET n == sanitizeNumber(val)
       IN  IF typeof(n) = "number"
             THEN Sanitized(callSanitizer(OptField(opts, "sanitize"), n), 1)
             ELSE Sanitized(JsUndefined, 0)

sanitizeRgba(val) == Sanitized(val, 0)

sanitizeBoolean(val) ==
  Sanitized(IF typeof(val) = "boolean" THEN val ELSE JsUndefined, 0)

\* the sanitize of a string config
stringSanitize(opts, value) ==
  IF JsTruthy(OptField(opts, "sanitize"))
    THEN Sanitized(callSanitizer(OptField(opts, "sanitize"), value), 1)
    ELSE Sanitized(IF typeof(value) = "string" THEN value ELSE JsUndefined, 0)

\* the sanitize of a stringLiteral config
stringLiteralSanitize(options, value) ==
  IF typeof(value) # "string" THEN Sanitized(JsUndefined, 0)
  ELSE IF value.s \in DOMAIN options THEN Sanitized(value, 0)
  ELSE Sanitized(JsUndefined, 0)

\* config.sanitize(value)
sanitize(config, value) ==
  IF config.type = "number" THEN numberSanitize(config.opts, value)
  ELSE IF config.type = "rgba" THEN sanitizeRgba(value)
  ELSE IF config.type = "boolean" THEN sanitizeBoolean(value)
  ELSE IF config.type = "string" THEN stringSanitize(config.opts, value)
  ELSE stringLiteralSanitize(config.options, value)

(***************************************************************************)
(* Prop types: a config constructed and its sanitize called                *)
(***************************************************************************)
\* the values given as default and to sanitize
PtValues ==
  { JsNumber(1), JsNumber(5), JsNaN, JsString(<<"r">>), JsString(<<"x">>),
    JsBoolean(TRUE), JsUndefined, JsNull, JsRgba }

LabelValues ==
  { Absent, JsString(<<"L">>), JsString(<<" ", "L">>), JsString(<<>>), JsNumber(5),
    JsUndefined }
RangeValues ==
  { Absent, JsArray(<<JsNumber(0), JsNumber(10)>>), JsArray(<<JsNumber(10), JsNumber(0)>>),
    JsNumber(3), JsArray(<<JsNumber(0)>>), JsArray(<<JsNumber(0), JsNaN>>) }
NudgeMultiplierValues == { Absent, JsNumber(2), JsNaN }
NudgeFnValues == { Absent, JsFunction("nudge"), JsNumber(1) }
SanitizeValues == { Absent, JsFunction("clamp"), JsFunction("reject") }

\* what is given as opts that is no object
NonObjectOpts == { JsUndefined, JsNull, JsNumber(7) }

\* the opts of boolean, string, rgba and stringLiteral
CommonOpts ==
  NonObjectOpts \cup
  { JsOpts([label |-> l, range |-> Absent, nudgeMultiplier |-> Absent,
            nudgeFn |-> Absent, sanitize |-> f]) :
      l \in LabelValues, f \in SanitizeValues }

\* the opts of number
NumberOpts ==
  NonObjectOpts \cup
  { JsOpts(o) : o \in [label : {Absent, JsString(<<"L">>), JsString(<<>>)},
                       range : RangeValues,
                       nudgeMultiplier : NudgeMultiplierValues,
                       nudgeFn : NudgeFnValues, sanitize : SanitizeValues] }

\* the options of stringLiteral: a mapping from value to label
StringLiteralOptions ==
  { [k \in {<<"r">>, <<"g">>} |-> JsString(<<"R">>)], NoOptions }

\* a constructor is called; each behaviour follows the one config it returns
Constructed(fn, defaultValue, options, opts, outcome) ==
  /\ ptConfig.kind = "none"
  /\ ptCall' = [fn |-> fn, default |-> defaultValue, options |-> options, opts |-> opts]
  /\ ptConfig' = outcome
  /\ UNCHANGED <<nodeEnv, ptSanitized>>

CallNumber ==
  /\ \E d \in PtValues, opts \in NumberOpts :
       Constructed("number", d, NoOptions, opts, number(nodeEnv, d, opts))
  /\ UNCHANGED nonPropVars

CallRgba ==
  /\ \E d \in PtValues, opts \in CommonOpts :
       Constructed("rgba", d, NoOptions, opts, rgba(nodeEnv, d, opts))
  /\ UNCHANGED nonPropVars

CallBoolean ==
  /\ \E d \in PtValues, opts \in CommonOpts :
       Constructed("boolean", d, NoOptions, opts, boolean(nodeEnv, d, opts))
  /\ UNCHANGED nonPropVars

CallString ==
  /\ \E d \in PtValues, opts \in CommonOpts :
       Constructed("string", d, NoOptions, opts, string(nodeEnv, d, opts))
  /\ UNCHANGED nonPropVars

CallStringLiteral ==
  /\ \E d \in PtValues, options \in StringLiteralOptions, opts \in CommonOpts :
       Constructed("stringLiteral", d, options, opts,
                   stringLiteral(nodeEnv, d, options, opts))
  /\ UNCHANGED nonPropVars

\* config.sanitize(value) is called
CallSanitize ==
  /\ ptConfig.kind = "config"
  /\ \E value \in PtValues :
       ptSanitized' = [called |-> TRUE, arg |-> value, result |-> sanitize(ptConfig, value)]
  /\ UNCHANGED <<nodeEnv, ptCall, ptConfig>>
  /\ UNCHANGED nonPropVars

(***************************************************************************)
(* ActiveModeProvider                                                      *)
(***************************************************************************)
IMode == {"option", "super", "shift", "d", "c", "h"}

\* KEYS_MAP[mode]
KEYS_MAP(mode, mac) ==
  IF mode = "option" THEN 18
  ELSE IF mode = "shift" THEN 16
  ELSE IF mode = "super" THEN (IF mac THEN 91 ELSE 17)
  ELSE IF mode = "d" THEN 68
  ELSE IF mode = "c" THEN 67
  ELSE 72

\* MODES[mode]: key.toUpperCase()
MODES(mode) ==
  IF mode = "option" THEN "OPTION"
  ELSE IF mode = "shift" THEN "SHIFT"
  ELSE IF mode = "super" THEN "SUPER"
  ELSE IF mode = "d" THEN "D"
  ELSE IF mode = "c" THEN "C"
  ELSE "H"

\* the null of state.activeMode and the undefined of a field never assigned
null == "null"

\* this._mapOfKeycodeToMode, built by the constructor from props.modes
mapOfKeycodeToMode(ms, mac) ==
  [code \in {KEYS_MAP(m, mac) : m \in ms} |-> CHOOSE m \in ms : KEYS_MAP(m, mac) = code]

\* the key codes of the keyboard events: those of KEYS_MAP and one of no mode
KeyCodes == {16, 17, 18, 67, 68, 72, 91, 65}

\* a faulty variant: the mouse button not looked at
keyDownReturnsEarlyOnInputOnly(mouseDown, keyCode, targetIsInput) ==
  targetIsInput /\ keyCode # 91

\* the two early returns of handleKeyDown
keyDownReturnsEarly(mouseDown, keyCode, targetIsInput) ==
  \/ mouseDown = "true"
  \/ targetIsInput /\ keyCode # 91

\* state.activeMode after setMode(mode)
setMode(current, mode) == IF current = mode THEN current ELSE mode

\* state.activeMode after handleKeyDown(event)
handleKeyDown(current, mouseDown, keyCode, targetIsInput, ms, mac) ==
  IF keyDownReturnsEarly(mouseDown, keyCode, targetIsInput) THEN current
  ELSE IF keyCode \in DOMAIN mapOfKeycodeToMode(ms, mac)
    THEN setMode(current, MODES(mapOfKeycodeToMode(ms, mac)[keyCode]))
    ELSE current

\* state.activeMode after resetActiveMode()
resetActiveMode(current) == setMode(current, null)

\* state.activeMode after handleKeyUp()
handleKeyUp(current) == IF current # null THEN resetActiveMode(current) ELSE current

\* an event is handled: what it was and what it found
Handled(kind, keyCode, targetIsInput) ==
  modeEvent' = [kind |-> kind, keyCode |-> keyCode, targetIsInput |-> targetIsInput,
                before |-> activeMode, mouseWasDown |-> isMouseDown]

KeyDown ==
  /\ \E keyCode \in KeyCodes, targetIsInput \in BOOLEAN :
       /\ activeMode' = handleKeyDown(activeMode, isMouseDown, keyCode, targetIsInput,
                                      modes, isMac)
       /\ Handled("keydown", keyCode, targetIsInput)
  /\ UNCHANGED <<modes, isMac, isMouseDown>>
  /\ UNCHANGED nonModeVars

KeyUp ==
  /\ \E keyCode \in KeyCodes :
       /\ activeMode' = handleKeyUp(activeMode)
       /\ Handled("keyup", keyCode, FALSE)
  /\ UNCHANGED <<modes, isMac, isMouseDown>>
  /\ UNCHANGED nonModeVars

\* handleMouseDown
MouseDown ==
  /\ isMouseDown' = "true"
  /\ Handled("mousedown", 0, FALSE)
  /\ UNCHANGED <<modes, isMac, activeMode>>
  /\ UNCHANGED nonModeVars

\* handleMouseUp
MouseUp ==
  /\ isMouseDown' = "false"
  /\ Handled("mouseup", 0, FALSE)
  /\ UNCHANGED <<modes, isMac, activeMode>>
  /\ UNCHANGED nonModeVars

\* mouseenter on the document: resetActiveMode
MouseEnter ==
  /\ activeMode' = resetActiveMode(activeMode)
  /\ Handled("mouseenter", 0, FALSE)
  /\ UNCHANGED <<modes, isMac, isMouseDown>>
  /\ UNCHANGED nonModeVars

\* focus on the window: resetActiveMode
Focus ==
  /\ activeMode' = resetActiveMode(activeMode)
  /\ Handled("focus", 0, FALSE)
  /\ UNCHANGED <<modes, isMac, isMouseDown>>
  /\ UNCHANGED nonModeVars

\* the lists of modes a provider is given
ModeLists == { {}, {"option"}, {"super", "shift"}, IMode }

(***************************************************************************)
(* WorkspaceListView: the edit session                                     *)
(***************************************************************************)
\* edits started in one run
MaxEdits == 3

\* the nodes that can be edited: the nodes of two workspaces and the new button
WsNodes == {"ws1", "ws2"}
EditNodes == WsNodes \cup {"newBtn"}

\* no callback
NoCallBack == 0

\* a faulty variant: the method goes on though no edit is current
neverReturns(edit) == FALSE

\* `return unless @currentEdit?`
returnsUnlessCurrentEdit(edit) == edit = null

\* the callback of edit `cb` has been called once more
Invoke(counts, cb, which) ==
  IF which = "store" THEN [counts EXCEPT ![cb].store = @ + 1]
  ELSE [counts EXCEPT ![cb].discard = @ + 1]

\* both callbacks of an edit of a workspace's node tell moosh to unignore the node
Unignore(nodes, cb) == IF started[cb] \in WsNodes THEN nodes \ {started[cb]} ELSE nodes

\* _startEdit(wsNode, cb, discard); the click that starts the edit of a workspace's
\* node first has moosh ignore the node, so that it is not clicked again
StartEdit ==
  /\ Len(started) < MaxEdits
  /\ \E node \in EditNodes \ ignored :
       /\ started' = Append(started, node)
       /\ ignored' = IF node \in WsNodes THEN ignored \cup {node} ELSE ignored
       /\ currentEdit' = node
  /\ scopeActive' = TRUE
  /\ currentEditCallBack' = Len(started) + 1
  /\ currentEditDiscardCallBack' = Len(started) + 1
  /\ editCall' = "_startEdit"
  /\ UNCHANGED <<visible, invoked>>
  /\ UNCHANGED nonEditVars

\* the body of _storeEdit; the store callback of the new button may throw (the
\* model's get refuses the name), and then @currentEditCallBack is not reset
storeEditBody ==
  IF returnsUnlessCurrentEdit(currentEdit)
    THEN UNCHANGED <<currentEdit, currentEditCallBack, scopeActive, ignored, invoked>>
    ELSE /\ scopeActive' = FALSE
         /\ currentEdit' = null
         /\ IF currentEditCallBack # NoCallBack
              THEN /\ invoked' = Invoke(invoked, currentEditCallBack, "store")
                   /\ ignored' = Unignore(ignored, currentEditCallBack)
                   /\ \/ currentEditCallBack' = NoCallBack
                      \/ /\ started[currentEditCallBack] = "newBtn"
                         /\ UNCHANGED currentEditCallBack
              ELSE UNCHANGED <<currentEditCallBack, ignored, invoked>>

\* _storeEdit()
StoreEdit ==
  /\ storeEditBody
  /\ editCall' = "_storeEdit"
  /\ UNCHANGED <<currentEditDiscardCallBack, visible, started>>
  /\ UNCHANGED nonEditVars

\* _discardEdit()
DiscardEdit ==
  /\ IF returnsUnlessCurrentEdit(currentEdit)
       THEN UNCHANGED <<currentEdit, currentEditDiscardCallBack, scopeActive, ignored,
                        invoked>>
       ELSE /\ scopeActive' = FALSE
            /\ currentEdit' = null
            /\ IF currentEditDiscardCallBack # NoCallBack
                 THEN /\ invoked' = Invoke(invoked, currentEditDiscardCallBack, "discard")
                      /\ ignored' = Unignore(ignored, currentEditDiscardCallBack)
                      /\ currentEditDiscardCallBack' = NoCallBack
                 ELSE UNCHANGED <<currentEditDiscardCallBack, ignored, invoked>>
  /\ editCall' = "_discardEdit"
  /\ UNCHANGED <<currentEditCallBack, visible, started>>
  /\ UNCHANGED nonEditVars

\* show()
Show ==
  /\ visible' = TRUE
  /\ editCall' = "show"
  /\ UNCHANGED <<currentEdit, currentEditCallBack, currentEditDiscardCallBack,
                 scopeActive, ignored, started, invoked>>
  /\ UNCHANGED nonEditVars

\* hide(): _storeEdit() if the list is visible
Hide ==
  /\ IF visible
       THEN storeEditBody
       ELSE UNCHANGED <<currentEdit, currentEditCallBack, scopeActive, ignored, invoked>>
  /\ visible' = FALSE
  /\ editCall' = "hide"
  /\ UNCHANGED <<currentEditDiscardCallBack, started>>
  /\ UNCHANGED nonEditVars

(***************************************************************************)
(* Initial conditions                                                      *)
(***************************************************************************)
PersistInit ==
  /\ store \in StoreStates
  /\ file \in InitialFiles
  /\ rootPc = "pathExists"
  /\ fileExists = FALSE
  /\ content = NoFile
  /\ jsonData = NoState
  /\ oldState = NoState
  /\ emitted = <<>>
  /\ nReads = 0
  /\ lastState = NoState
  /\ task = IdleTask
  /\ io = {}
  /\ observed = {}
  /\ nDispatched = 0
  /\ burstLen = 0
  /\ burstChanges = 0
  /\ burstWrites = 0
  /\ burstDiffers = FALSE
  /\ ioBeforeBoot = FALSE
  /\ wrote = FALSE

\* the persistence pipeline before the application has started
PersistIdle ==
  /\ store = [projects |-> [listOfPaths |-> <<>>, active |-> "p1"], ui |-> "u0"]
  /\ file = NoFile
  /\ rootPc = "pathExists"
  /\ fileExists = FALSE
  /\ content = NoFile
  /\ jsonData = NoState
  /\ oldState = NoState
  /\ emitted = <<>>
  /\ nReads = 0
  /\ lastState = NoState
  /\ task = IdleTask
  /\ io = {}
  /\ observed = {}
  /\ nDispatched = 0
  /\ burstLen = 0
  /\ burstChanges = 0
  /\ burstWrites = 0
  /\ burstDiffers = FALSE
  /\ ioBeforeBoot = FALSE
  /\ wrote = FALSE

\* the wrapped reducer is about to be given a state for the first time
ReducerInit ==
  /\ rState \in ReducerStates
  /\ rAction = JsUndefined
  /\ rOutcome = NoCall

ReducerIdle ==
  /\ rState = JsUndefined
  /\ rAction = JsUndefined
  /\ rOutcome = NoCall

\* new DictAtom(o): _assignInitialValue(o); nothing is emitted
DictInit ==
  /\ \E o \in DictObjects :
       /\ internalMap = o
       /\ adopted = AdoptAll({}, o, KeysOf(o), 1)
       /\ lastCall = [op |-> "new", arg |-> o, before |-> [x \in {} |-> undefined],
                      listening |-> FALSE]
  /\ tappers = 0
  /\ events = <<>>

DictIdle ==
  /\ internalMap = [x \in {} |-> undefined]
  /\ adopted = {}
  /\ lastCall = [op |-> "new", arg |-> [x \in {} |-> undefined],
                 before |-> [x \in {} |-> undefined], listening |-> FALSE]
  /\ tappers = 0
  /\ events = <<>>

\* no prop type constructor has been called
PropIdle ==
  /\ nodeEnv = "development"
  /\ ptCall = [fn |-> "none"]
  /\ ptConfig = [kind |-> "none"]
  /\ ptSanitized = [called |-> FALSE]

\* the build is a development or a production build; nothing has been constructed
PropInit ==
  /\ nodeEnv \in {"development", "production"}
  /\ ptCall = [fn |-> "none"]
  /\ ptConfig = [kind |-> "none"]
  /\ ptSanitized = [called |-> FALSE]

\* the provider constructed and mounted: activeMode is null, _isMouseDown has no value
ModeInit ==
  /\ modes \in ModeLists
  /\ isMac \in BOOLEAN
  /\ activeMode = null
  /\ isMouseDown = "undefined"
  /\ modeEvent = [kind |-> "none", keyCode |-> 0, targetIsInput |-> FALSE,
                  before |-> null, mouseWasDown |-> "undefined"]

ModeIdle ==
  /\ modes = {}
  /\ isMac = FALSE
  /\ activeMode = null
  /\ isMouseDown = "undefined"
  /\ modeEvent = [kind |-> "none", keyCode |-> 0, targetIsInput |-> FALSE,
                  before |-> null, mouseWasDown |-> "undefined"]

\* a WorkspaceListView constructed: _initRename has set @currentEdit to null
EditInit ==
  /\ currentEdit = null
  /\ currentEditCallBack = NoCallBack
  /\ currentEditDiscardCallBack = NoCallBack
  /\ scopeActive = FALSE
  /\ visible = FALSE
  /\ ignored = {}
  /\ started = <<>>
  /\ invoked = [i \in 1..MaxEdits |-> [store |-> 0, discard |-> 0]]
  /\ editCall = "constructor"

(***************************************************************************)
(* Specifications                                                          *)
(***************************************************************************)
\* the persistence pipeline
Init == PersistInit /\ ReducerIdle /\ DictIdle /\ PropIdle /\ ModeIdle /\ EditInit

Next ==
  \/ LoadPathExists
  \/ LoadReadFile
  \/ LoadParse
  \/ LoadSelect
  \/ LoadPutSetState
  \/ LoadPutBootstrap
  \/ ForkPersistStateChanges
  \/ Dispatch
  \/ DelayElapsed
  \/ EnsureFileDone
  \/ WriteFileDone
  \/ OrphanEnsureFileDone
  \/ OrphanWriteFileDone

Spec == Init /\ [][Next]_vars

\* a store reduced by the wrapped reducer
ReducerSpecInit == ReducerInit /\ PersistIdle /\ DictIdle /\ PropIdle /\ ModeIdle /\ EditInit

ReducerNext ==
  \/ DispatchMergeState
  \/ DispatchSetState
  \/ DispatchResetState
  \/ DispatchMultiReduceState
  \/ DispatchAppAction
  \/ DispatchNonObject

SpecReducer == ReducerSpecInit /\ [][ReducerNext]_vars

\* a DictAtom and its listeners
DictSpecInit == DictInit /\ PersistIdle /\ ReducerIdle /\ PropIdle /\ ModeIdle /\ EditInit

DictNext ==
  \/ Assign
  \/ SetProp
  \/ DeleteProp
  \/ Tap
  \/ Untap

SpecDict == DictSpecInit /\ [][DictNext]_vars

\* a prop type config
PropSpecInit == PropInit /\ PersistIdle /\ ReducerIdle /\ DictIdle /\ ModeIdle /\ EditInit

PropNext ==
  \/ CallNumber
  \/ CallRgba
  \/ CallBoolean
  \/ CallString
  \/ CallStringLiteral
  \/ CallSanitize

SpecProp == PropSpecInit /\ [][PropNext]_vars

\* a mounted ActiveModeProvider and the events of its document and window
ModeSpecInit == ModeInit /\ PersistIdle /\ ReducerIdle /\ DictIdle /\ PropIdle /\ EditInit

ModeNext ==
  \/ KeyDown
  \/ KeyUp
  \/ MouseDown
  \/ MouseUp
  \/ MouseEnter
  \/ Focus

SpecMode == ModeSpecInit /\ [][ModeNext]_vars

\* a WorkspaceListView and the calls of its edit methods
EditSpecInit == EditInit /\ PersistIdle /\ ReducerIdle /\ DictIdle /\ PropIdle /\ ModeIdle

EditNext ==
  \/ StartEdit
  \/ StoreEdit
  \/ DiscardEdit
  \/ Show
  \/ Hide

SpecEdit == EditSpecInit /\ [][EditNext]_vars

(***************************************************************************)
(* Claims about the persistence pipeline                                   *)
(***************************************************************************)
Projection(s) == pickPathsFromObject(s, whitelistOfPartsOfStateToPersist)

\* the worker of the current burst has run to its end
BurstFinished == Watching /\ task.pc = "idle" /\ burstLen >= 1

\* C1 (as stated): a burst of two or more actions that each change the whitelisted
\* projection, each dispatched within the debounce delay of the previous one,
\* produces exactly one file write.
C1_ExactlyOneWritePerBurst ==
  (BurstFinished /\ burstLen >= 2 /\ burstChanges >= 2) => burstWrites = 1

\* C1 (amended): a burst produces at most one file write, and none by the workers
\* of its earlier actions: every file operation is issued by the worker of the latest
\* action dispatched; a write carries the projection of the state after that action;
\* and a burst whose worker runs to its end has written exactly when the projection
\* it read after the delay differed from lastState.
C1_LatestWinsDebounce ==
  /\ [](burstWrites <= 1)
  /\ [](BurstFinished => (burstWrites = 1 <=> burstDiffers))
  /\ [][\A op \in io' \ io :
          /\ op.owner = nDispatched'
          /\ op.kind = "writeFile" => op.text = JSONstringify(Projection(store'))]_vars

\* C1 witness: a burst of two projection-changing actions ended with its one write
C1_Witness ==
  BurstFinished /\ burstLen >= 2 /\ burstChanges >= 2 /\ burstWrites = 1
    /\ file = JSONstringify(Projection(store))

\* C4: the watcher observes actions only once _loadState has returned: it never takes
\* the setState or bootstrap action put by _loadState, it has no worker before the
\* root saga has forked it, and no file operation of persistNewState is issued
\* before bootstrapAction has been put.
C4_WatchAfterLoad ==
  /\ "load" \notin observed
  /\ ~ioBeforeBoot
  /\ (task # IdleTask \/ observed # {} \/ io # {}) => (BootstrapPut /\ rootPc = "watching")

\* C4 witness: after a load that put setState and bootstrap, the watcher has taken
\* an application action and written the file
C4_Witness ==
  Len(emitted) = 2 /\ observed = {"app"} /\ wrote /\ rootPc = "watching"

\* C5 (as stated): at most one file operation of persistNewState (ensureFile or
\* writeFile) is in progress at any time.
C5_WritesSerialized == Cardinality(io) <= 1

\* C11 (as stated, its second half): an action that changes only non-whitelisted
\* state, or nothing, never causes a write: while no action of the current burst
\* has changed the whitelisted projection, the burst's worker writes nothing.
C11_NoWriteWithoutWhitelistedChange ==
  (Watching /\ burstLen >= 1 /\ burstChanges = 0) => burstWrites = 0

\* the step in which the worker, its delay elapsed, compares and goes on or ends
WorkerCompares == task.pc = "delay" /\ task'.pc # "delay"

\* C11 (amended): a worker whose delay elapses calls persistNewState if and only if
\* the whitelisted projection of the state it selects is not deep-equal to lastState,
\* the projection last persisted by a worker that was not cancelled; if it is equal
\* the worker ends without issuing a file operation, and if it is not the worker
\* that runs to completion has written exactly that projection and made it
\* lastState. So an action that leaves the projection equal to lastState never
\* causes a write.
C11_WriteIffDiffersFromLastState ==
  /\ [][WorkerCompares =>
          /\ (task'.pc = "ensureFile") <=> (Projection(store) # lastState)
          /\ task'.pc \in {"ensureFile", "idle"}
          /\ task'.pc = "idle" => (io' = io /\ file' = file /\ burstWrites' = burstWrites)
          /\ task'.pc = "ensureFile" =>
                (task'.newState = Projection(store) /\ Cardinality(io' \ io) = 1)]_vars
  /\ [][(task.pc = "writeFile" /\ task'.pc = "idle") =>
          /\ Projection(store) # lastState
          /\ file' = JSONstringify(Projection(store))
          /\ lastState' = Projection(store)]_vars

\* C11 witness: after a write, an action changed only the non-whitelisted state and
\* its worker ran to completion without writing
C11_Witness ==
  /\ BurstFinished /\ wrote /\ burstChanges = 0 /\ burstWrites = 0 /\ ~burstDiffers
  /\ lastState = Projection(store) /\ file = JSONstringify(lastState)
  /\ nDispatched >= 2

\* the watcher is quiescent: no worker pending or running, no file operation in flight
Quiescent == Watching /\ task.pc = "idle" /\ io = {}

\* C6 (as stated, for the runs in which the watcher has written the file): once the
\* watcher is quiescent, so that nothing more happens until another action is
\* dispatched, the file holds the serialized projection of the store's state.
C6_FileConverges ==
  (Quiescent /\ wrote) => file = JSONstringify(Projection(store))

\* _loadState has returned to the root saga
LoadReturned == rootPc \in {"fork", "watching"}

\* the value the file holds at projects.listOfPaths (undefined when it has none)
FileListOfPaths ==
  IF "projects" \in DOMAIN content.tree
       /\ "listOfPaths" \in DOMAIN content.tree.projects
    THEN content.tree.projects.listOfPaths
    ELSE Undefined

\* C8: with a present, parseable file _loadState puts exactly setStateAction(merged)
\* and then bootstrapAction, where merged is the state selected at load time with
\* projects.listOfPaths replaced by the file's value and everything else unchanged.
C8_LoadMergesFile ==
  (LoadReturned /\ fileExists /\ content.chars = "json") =>
     /\ Len(emitted) = 2
     /\ emitted[1].type = "setState"
     /\ emitted[1].payload = [oldState EXCEPT !.projects.listOfPaths = FileListOfPaths]
     /\ emitted[2] = bootstrapAction

\* C8 witness: a file with a different list and with non-whitelisted content was merged
C8_Witness ==
  /\ LoadReturned /\ Len(emitted) = 2
  /\ "ui" \in DOMAIN content.tree /\ "projects" \in DOMAIN content.tree
  /\ emitted[1].payload.projects.listOfPaths = <<"/a", "/b">>
  /\ oldState.projects.listOfPaths = <<>>
  /\ emitted[1].payload.ui = oldState.ui

C10_LoadWithCorruptFile ==
  (jsonData = ParseError) =>
     /\ rootPc \in {"putBootstrap", "fork", "watching"}
     /\ emitted = IF rootPc = "putBootstrap" THEN <<>> ELSE <<bootstrapAction>>
     /\ rootPc = "fork" => ENABLED ForkPersistStateChanges

\* C10 witness: the watcher runs after a load that could not parse the file
C10_Witness ==
  jsonData = ParseError /\ content = Garbage /\ Watching /\ emitted = <<bootstrapAction>>

\* the text is the JSON of an object that has projects.listOfPaths and nothing else
HoldsOnlyTheWhitelist(text) ==
  /\ text.chars = "json"
  /\ DOMAIN text.tree = {"projects"}
  /\ DOMAIN text.tree.projects = {"listOfPaths"}

\* C26: a write carries the JSON of the whitelisted projection of the state the
\* worker selected after its delay, and of nothing outside the whitelist; it starts
\* in the step in which the worker's ensureFile completes, the file then existing;
\* and the file's content changes to nothing but the text of such a write (or, by
\* ensureFile, from absent to empty).
C26_WriteContent ==
  /\ [][WorkerCompares =>
          \/ task'.pc = "idle"
          \/ /\ DOMAIN task'.newState = {"projects"}
             /\ task'.newState.projects = [listOfPaths |-> store.projects.listOfPaths]]_vars
  /\ [][\A op \in io' \ io :
          op.kind = "writeFile" =>
            /\ task.pc = "ensureFile" /\ op.owner = task.id
            /\ op.text = JSONstringify(task.newState)
            /\ HoldsOnlyTheWhitelist(op.text)
            /\ op.text.tree.projects.listOfPaths = store.projects.listOfPaths
            /\ \E e \in io \ io' : e.kind = "ensureFile" /\ e.owner = op.owner
            /\ file'.kind = "text"]_vars
  /\ [][(file' # file /\ Watching) =>
          \/ file = NoFile /\ file' = EmptyText
          \/ \E op \in io \ io' :
               op.kind = "writeFile" /\ file' = op.text /\ HoldsOnlyTheWhitelist(file')]_vars
  /\ [](\A op \in io, e \in io : (op.kind = "writeFile" /\ e.kind = "ensureFile")
                                      => op.owner # e.owner)

\* C26 witness: the file, absent at first, holds the written projection of a state
\* whose non-whitelisted parts differ from those at the start
C26_Witness ==
  /\ wrote /\ ~fileExists /\ io = {} /\ task.pc = "idle"
  /\ file = JSONstringify([projects |-> [listOfPaths |-> <<"/a", "/b">>]])
  /\ store.ui = "u1"

\* C27: lastState changes only in the step in which the worker's writeFile
\* completes (its first value is given by the watcher when it is forked), so a
\* worker cancelled by a newer action leaves it unchanged; and whenever the
\* watcher has no worker pending or running, lastState is the whitelisted
\* projection of the store's state.
C27_SnapshotInvariant ==
  /\ [][lastState' # lastState =>
          \/ rootPc = "fork" /\ rootPc' = "watching"
          \/ /\ task.pc = "writeFile" /\ task'.pc = "idle"
             /\ file' = JSONstringify(lastState')]_vars
  /\ [][task'.id # task.id => lastState' = lastState]_vars
  /\ []((Watching /\ task.pc = "idle") => deepEqual(lastState, Projection(store)))

\* C27 witness: a worker was cancelled while its ensureFile was pending, and the
\* worker of the next action has run to completion and written
C27_Witness ==
  /\ Watching /\ task.pc = "idle" /\ task.id = 2 /\ burstWrites = 1
  /\ \E op \in io : op.owner = 1 /\ op.kind = "ensureFile"
  /\ lastState = Projection(store)

(***************************************************************************)
(* Claims about the reducer wrapper                                        *)
(***************************************************************************)
IsAction(type) == rOutcome.kind # "none" /\ rAction.t = "object" /\ rAction.type = type

\* C2 (as stated): a mergeStateAction with a non-null object payload given an
\* undefined current state does not throw and returns a copy of the payload.
C2_MergeIntoUndefinedState ==
  (IsAction(mergeStateActionType) /\ rAction.payload.t = "object" /\ rState = JsUndefined)
    => (rOutcome.kind = "returned" /\ rOutcome.value = rAction.payload)

\* C7 (as stated, at the undefined current state it names): a resetStateAction
\* whose payload is no array returns the inner reducer's initial state,
\* reducer(undefined, action), whatever the current state.
C7_FullResetFromAnyState ==
  (IsAction(resetStateActionType) /\ rAction.payload.t # "array" /\ rState = JsUndefined)
    => (rOutcome.kind = "returned" /\ rOutcome.value = innerReducer(JsUndefined, rAction))

\* C16: for an object state and a non-null object payload, mergeStateAction returns
\* an object that has the payload's value for each key of the payload, the state's
\* value for every other key of the state, and no other key.
C16_MergeResult ==
  (IsAction(mergeStateActionType) /\ rState.t = "object" /\ rAction.payload.t = "object")
    => /\ rOutcome.kind = "returned"
       /\ rOutcome.value.t = "object"
       /\ DOMAIN rOutcome.value.m = DOMAIN rState.m \cup DOMAIN rAction.payload.m
       /\ \A k \in DOMAIN rAction.payload.m : rOutcome.value.m[k] = rAction.payload.m[k]
       /\ \A k \in DOMAIN rState.m \ DOMAIN rAction.payload.m :
            rOutcome.value.m[k] = rState.m[k]

\* C16 witness: {x: 2} merged into {x: 99, y: 99}
C16_Witness ==
  /\ IsAction(mergeStateActionType)
  /\ rState = JsObject([x |-> 99, y |-> 99]) /\ rAction.payload = JsObject([x |-> 2])
  /\ rOutcome.value = JsObject([x |-> 2, y |-> 99])

\* C17: a mergeStateAction throws whenever its payload is null or no object and
\* whenever the current state is neither undefined nor an object; it never calls
\* the inner reducer.
C17_MergeThrows ==
  IsAction(mergeStateActionType) =>
    /\ rOutcome.innerCalls = 0
    /\ (rAction.payload = JsNull \/ typeof(rAction.payload) # "object")
         => rOutcome.kind = "threw"
    /\ (rState # JsUndefined /\ (rState = JsNull \/ typeof(rState) # "object"))
         => rOutcome.kind = "threw"

\* C17 witness: an object payload merged against the state 5 threw
C17_Witness ==
  /\ IsAction(mergeStateActionType) /\ rState = JsNumber(5)
  /\ rAction.payload = JsObject([z |-> 3]) /\ rOutcome = Threw(0)

\* C18: a setStateAction returns exactly its payload, whatever the current state
\* and the payload, and does not call the inner reducer.
C18_SetStateReturnsPayload ==
  IsAction(setStateActionType) =>
    (rOutcome.kind = "returned" /\ rOutcome.value = rAction.payload
       /\ rOutcome.innerCalls = 0)

\* C18 witness: an object state replaced by null
C18_Witness ==
  /\ IsAction(setStateActionType) /\ rState.t = "object" /\ rState.m # EmptyMap
  /\ rAction.payload = JsNull /\ rOutcome.value = JsNull

\* the keys a resetStateAction's array payload lists
Listed == {rAction.payload.a[i] : i \in 1..Len(rAction.payload.a)}

\* C19: a resetStateAction with an array payload and an object current state gives
\* each listed key that the inner reducer's initial state has its initial value, and
\* leaves every key of the current state that is not listed with its current value.
C19_PartialReset ==
  (IsAction(resetStateActionType) /\ rAction.payload.t = "array" /\ rState.t = "object")
    => /\ rOutcome.kind = "returned"
       /\ rOutcome.value.t = "object"
       /\ \A k \in Listed \cap DOMAIN innerInitialState.m :
            k \in DOMAIN rOutcome.value.m /\ rOutcome.value.m[k] = innerInitialState.m[k]
       /\ \A k \in DOMAIN rState.m \ Listed :
            k \in DOMAIN rOutcome.value.m /\ rOutcome.value.m[k] = rState.m[k]

\* C19 witness: reset(['x']) on {x: 99, y: 99} gave {x: 1, y: 99}
C19_Witness ==
  /\ IsAction(resetStateActionType) /\ rAction.payload = JsArray(<<"x">>)
  /\ rState = JsObject([x |-> 99, y |-> 99])
  /\ rOutcome.value = JsObject([x |-> 1, y |-> 99])

\* C20: a multiReduceStateAction applies its pairs in order, each to the state the
\* pairs before it produced; an empty sequence returns the state unchanged.
C20_MultiReduceIsLeftFold ==
  IsAction(multiReduceStateActionType) =>
    LET ps == rAction.payload.a
    IN  /\ rOutcome.kind = "returned"
        /\ Len(ps) = 0 => rOutcome.value = rState
        /\ Len(ps) = 1 => rOutcome.value = update(ps[1].path, ps[1].reducer, rState)
        /\ Len(ps) = 2 =>
             rOutcome.value = update(ps[2].path, ps[2].reducer,
                                     update(ps[1].path, ps[1].reducer, rState))
        /\ Len(ps) <= 2

\* C20 witness: x incremented and then doubled on {x: 1} gave {x: 4}
C20_Witness ==
  /\ IsAction(multiReduceStateActionType) /\ rState = JsObject([x |-> 1])
  /\ rAction.payload.a = << [path |-> "x", reducer |-> "inc"],
                            [path |-> "x", reducer |-> "double"] >>
  /\ rOutcome.value = JsObject([x |-> 4])

GenericActionTypes ==
  {mergeStateActionType, setStateActionType, resetStateActionType,
   multiReduceStateActionType}

\* the wrapper was last given something that is no object, null, or an object
\* whose type is none of the four generic types
NotGeneric ==
  rOutcome.kind # "none" /\ (rAction.t # "object" \/ rAction.type \notin GenericActionTypes)

\* C21: for an action that is no object, is null, or has none of the four generic
\* types, the wrapped reducer returns what the inner reducer returns for the same
\* state and action, having called it once.
C21_DelegatesOtherActions ==
  NotGeneric =>
    /\ rOutcome.kind = "returned"
    /\ rOutcome.value = innerReducer(rState, rAction)
    /\ rOutcome.innerCalls = 1

\* C21 witness: an application action reduced by the inner reducer on an object state
C21_Witness ==
  /\ NotGeneric /\ rAction.t = "object" /\ rAction.type = "app/setZ"
  /\ rState = JsObject([x |-> 99, y |-> 99])
  /\ rOutcome.value = JsObject([x |-> 99, y |-> 99, z |-> rAction.payload.n])

(***************************************************************************)
(* Claims about DictAtom                                                   *)
(***************************************************************************)
\* C3 (as stated): the event of an assign or deleteProp call made while a listener
\* is registered maps, in overriddenRefs, every affected key to the value the key
\* held immediately before the call (undefined if it was absent).
C3_OverriddenRefsHoldPreviousValues ==
  (lastCall.op \in {"assign", "deleteProp"} /\ lastCall.listening) =>
     /\ Len(events) = 1
     /\ \A k \in DOMAIN lastCall.arg :
          /\ k \in DOMAIN events[1].overriddenRefs
          /\ events[1].overriddenRefs[k] = prop(lastCall.before, k)


\* C12: a call of assign, setProp or deleteProp emits exactly one change event if at
\* least one listener is registered when it is made and none if no listener is;
\* the construction of the atom with its initial mapping emits none.
C12_OneEventPerCallIffListening ==
  /\ lastCall.op \in {"assign", "setProp", "deleteProp"} =>
       Len(events) = IF tappers > 0 THEN 1 ELSE 0
  /\ lastCall.op = "new" => events = <<>>

\* C12 witness: a setProp made while two listeners are registered emitted one event
C12_Witness ==
  lastCall.op = "setProp" /\ tappers = 2 /\ Len(events) = 1 /\ internalMap # lastCall.before

\* C13: the addedKeys of the event of an assign or setProp call are exactly the keys
\* of its argument that were not own keys of the atom immediately before the call,
\* each once; the event of a deleteProp call has no addedKeys.
C13_AddedKeysAreTheNewKeys ==
  /\ (lastCall.op \in {"assign", "setProp"} /\ events # <<>>) =>
       /\ SeqToSet(events[1].addedKeys) = DOMAIN lastCall.arg \ DOMAIN lastCall.before
       /\ Len(events[1].addedKeys) = Cardinality(SeqToSet(events[1].addedKeys))
  /\ (lastCall.op = "deleteProp" /\ events # <<>>) => events[1].addedKeys = <<>>

\* C13 witness: an assign of an existing key and of an absent one reports the
\* absent one alone
C13_Witness ==
  /\ lastCall.op = "assign" /\ events # <<>>
  /\ DOMAIN lastCall.arg = {"a", "b"} /\ DOMAIN lastCall.before = {"b"}
  /\ events[1].addedKeys = <<"a">>

\* the reference map after the last call: the map before it with the call's
\* entries put, or the call's key removed
ReferenceMap ==
  IF lastCall.op = "new" THEN lastCall.arg
  ELSE IF lastCall.op \in {"assign", "setProp"}
    THEN [k \in DOMAIN lastCall.before \cup DOMAIN lastCall.arg |->
            IF k \in DOMAIN lastCall.arg THEN lastCall.arg[k] ELSE lastCall.before[k]]
  ELSE IF lastCall.op = "deleteProp"
    THEN [k \in DOMAIN lastCall.before \ DOMAIN lastCall.arg |-> lastCall.before[k]]
  ELSE lastCall.before

\* C14: after construction and after every call, keys() is the key set of the
\* reference map, prop(k) is the reference value of every key present and undefined
\* for every key absent, and the event of deleteProp(k) has deletedKeys = [k].
C14_ContentMatchesReferenceMap ==
  /\ SeqToSet(keys(internalMap)) = DOMAIN ReferenceMap
  /\ Len(keys(internalMap)) = Cardinality(DOMAIN ReferenceMap)
  /\ \A k \in DictKeySet :
       prop(internalMap, k) = IF k \in DOMAIN ReferenceMap THEN ReferenceMap[k]
                                                            ELSE undefined
  /\ (lastCall.op = "deleteProp" /\ events # <<>>) =>
       (Len(events[1].deletedKeys) = 1 /\ {events[1].deletedKeys[1]} = DOMAIN lastCall.arg)

\* C14 witness: deleteProp('a') on an atom holding a and b left b alone
C14_Witness ==
  /\ lastCall.op = "deleteProp" /\ DOMAIN lastCall.before = {"a", "b"}
  /\ keys(internalMap) = <<"b">> /\ prop(internalMap, "a") = undefined
  /\ events # <<>> /\ events[1].deletedKeys = <<"a">>

IsAdopted(v) == \E p \in adopted : p[2] = v
IsStored(v) == \E k \in DOMAIN internalMap : internalMap[k] = v

\* C15 (as stated): after construction and after every call a value is adopted by
\* the atom if and only if it is stored under at least one key of the atom.
C15_AdoptedIffStored == \A v \in DictValues : IsAdopted(v) <=> IsStored(v)

(***************************************************************************)
(* Claims about the prop types                                             *)
(***************************************************************************)
\* the config's sanitize has been called with the config's default
SanitizedDefault ==
  ptConfig.kind = "config" /\ ptSanitized.called /\ ptSanitized.arg = ptConfig.default

\* C22 (as stated, in a development build): for every config that number, boolean,
\* string, stringLiteral or rgba returned, with or without a custom opts.sanitize,
\* sanitize(default) returns the default unchanged.
C22_DefaultIsSelfSanitizing ==
  (nodeEnv = "development" /\ SanitizedDefault)
    => ptSanitized.result.value = ptConfig.default

\* opts has a label that is no string, is empty, or starts or ends with whitespace
LabelIsMalformed(opts) ==
  /\ opts.t = "object" /\ opts.o.label # Absent
  /\ \/ opts.o.label.t # "string"
     \/ opts.o.label.s = <<>>
     \/ Head(opts.o.label.s) = " "
     \/ opts.o.label.s[Len(opts.o.label.s)] = " "

\* C23 (as stated): in a development build stringLiteral(default, options, opts)
\* throws when default is not a string that is a key of options, and when
\* opts.label is malformed.
C23_StringLiteralValidates ==
  (nodeEnv = "development" /\ ptCall.fn = "stringLiteral"
     /\ \/ ptCall.default.t # "string"
        \/ ptCall.default.s \notin DOMAIN ptCall.options
        \/ LabelIsMalformed(ptCall.opts))
    => ptConfig.kind = "threw"

\* the number config was built with a function as opts.sanitize
HasCustomSanitizer == OptField(ptConfig.opts, "sanitize").t = "function"

IsFiniteNumber(v) == v.t = "number" /\ v # JsNaN

\* C24: the sanitize of a number config built with a custom opts.sanitize returns
\* undefined, without calling the custom sanitizer, for a value that is no finite
\* number, and the custom sanitizer's result for a finite number; without a custom
\* sanitizer it returns a finite number as it is and undefined for anything else;
\* whatever opts.range is.
C24_NumberSanitizerComposition ==
  (ptConfig.kind = "config" /\ ptConfig.type = "number" /\ ptSanitized.called) =>
    LET v == ptSanitized.arg
        r == ptSanitized.result
    IN  IF HasCustomSanitizer
          THEN IF IsFiniteNumber(v)
                 THEN r.value = callSanitizer(ptConfig.opts.o.sanitize, v)
                        /\ r.customCalls = 1
                 ELSE r.value = JsUndefined /\ r.customCalls = 0
          ELSE /\ r.customCalls = 0
               /\ r.value = IF IsFiniteNumber(v) THEN v ELSE JsUndefined

\* C24 witness: a config with a range of 0 to 10 and a clamping sanitizer, given 5
C24_Witness ==
  /\ ptConfig.kind = "config" /\ ptConfig.type = "number" /\ ptSanitized.called
  /\ HasCustomSanitizer /\ ptConfig.opts.o.sanitize.name = "clamp"
  /\ ptConfig.opts.o.range = JsArray(<<JsNumber(0), JsNumber(10)>>)
  /\ ptSanitized.arg = JsNumber(5)
  /\ ptSanitized.result = Sanitized(JsNumber(2), 1)

\* the default given is not of the kind the constructor declares
WrongDefaultType(fn, d) ==
  IF fn = "number" THEN ~IsFiniteNumber(d)
  ELSE IF fn = "rgba" THEN d # JsRgba
  ELSE d.t # fn

\* opts.range, opts.nudgeMultiplier or opts.nudgeFn of number is malformed
NumberOptsAreMalformed(opts) ==
  /\ opts.t = "object"
  /\ \/ /\ opts.o.range # Absent
        /\ \/ opts.o.range.t # "array"
           \/ Len(opts.o.range.a) # 2
           \/ \E i \in 1..Len(opts.o.range.a) : ~IsFiniteNumber(opts.o.range.a[i])
           \/ opts.o.range.a[1].n >= opts.o.range.a[2].n
     \/ opts.o.nudgeMultiplier # Absent /\ ~IsFiniteNumber(opts.o.nudgeMultiplier)
     \/ opts.o.nudgeFn # Absent /\ opts.o.nudgeFn.t # "function"

\* the call was given a malformed label or a default of the wrong type or, if
\* it is a call of number, a malformed range, nudgeMultiplier or nudgeFn
InputIsMalformed ==
  \/ LabelIsMalformed(ptCall.opts)
  \/ WrongDefaultType(ptCall.fn, ptCall.default)
  \/ ptCall.fn = "number" /\ NumberOptsAreMalformed(ptCall.opts)

\* C25 (as stated): in a production build number, boolean, string and rgba return
\* a config whatever the default and the opts; in a development build each
\* malformed input makes them throw.
C25_BuildModeGating ==
  ptCall.fn \in {"number", "boolean", "string", "rgba"} =>
    /\ nodeEnv = "production" => ptConfig.kind = "config"
    /\ (nodeEnv = "development" /\ InputIsMalformed) => ptConfig.kind = "threw"

(***************************************************************************)
(* Claims about DictAtom: the order of update and emission                 *)
(***************************************************************************)
\* C28: the event of an assign, setProp or deleteProp call is emitted within the
\* call and after the map has been updated: a listener reading keys() or prop(k)
\* during the event finds the content the call leaves, for every affected key the
\* value stored or, for a deleted key, undefined.
C28_EmittedAfterUpdate ==
  (lastCall.op \in {"assign", "setProp", "deleteProp"} /\ tappers > 0) =>
     /\ Len(events) = 1
     /\ events[1].mapSeen = internalMap
     /\ events[1].adoptedSeen = adopted
     /\ SeqToSet(keys(events[1].mapSeen)) = DOMAIN ReferenceMap
     /\ \A k \in DOMAIN lastCall.arg :
          prop(events[1].mapSeen, k) =
            IF lastCall.op = "deleteProp" THEN undefined ELSE lastCall.arg[k]

\* C28 witness: the listener of an assign that overwrote a and added b read both
C28_Witness ==
  /\ lastCall.op = "assign" /\ tappers > 0 /\ Len(events) = 1
  /\ DOMAIN lastCall.before = {"a"} /\ DOMAIN lastCall.arg = {"a", "b"}
  /\ lastCall.before["a"] # lastCall.arg["a"]
  /\ keys(events[1].mapSeen) = <<"a", "b">>
  /\ prop(events[1].mapSeen, "a") = lastCall.arg["a"]

(***************************************************************************)
(* Claims about ActiveModeProvider                                         *)
(***************************************************************************)
\* C29: activeMode is null or the MODES value of a configured mode; it leaves null
\* only by a keydown of a configured mode's key handled while the mouse button is
\* not down; a keydown handled while the mouse button is down does not change it;
\* and after a keyup, a mouseenter or a focus it is null.
C29_ModeStateMachine ==
  /\ [](activeMode = null \/ \E m \in modes : activeMode = MODES(m))
  /\ [][(activeMode = null /\ activeMode' # null) =>
          /\ modeEvent'.kind = "keydown"
          /\ isMouseDown # "true"
          /\ \E m \in modes : /\ KEYS_MAP(m, isMac) = modeEvent'.keyCode
                              /\ activeMode' = MODES(m)]_vars
  /\ []((modeEvent.kind = "keydown" /\ modeEvent.mouseWasDown = "true")
          => activeMode = modeEvent.before)
  /\ [](modeEvent.kind \in {"keyup", "mouseenter", "focus"} => activeMode = null)

\* C29 witness: with the mouse button down since before, a keydown of a configured
\* key left the mode another key had set
C29_Witness ==
  /\ modeEvent.kind = "keydown" /\ modeEvent.mouseWasDown = "true"
  /\ modeEvent.keyCode = 16 /\ "shift" \in modes
  /\ activeMode = "SUPER" /\ isMac

(***************************************************************************)
(* Claims about the edit session of WorkspaceListView                      *)
(***************************************************************************)
\* C30: _storeEdit and _discardEdit change nothing when no edit is current; when
\* one is, _storeEdit (_discardEdit) sets currentEdit to null, deactivates the key
\* scope and calls once the store (discard) callback of the most recent _startEdit
\* and no other; and no callback of any edit is ever called a second time, nor both
\* callbacks of one edit.
C30_EditSession ==
  /\ [][(editCall' \in {"_storeEdit", "_discardEdit"} /\ currentEdit = null) =>
          UNCHANGED <<currentEdit, currentEditCallBack, currentEditDiscardCallBack,
                      scopeActive, visible, ignored, started, invoked>>]_vars
  /\ [][(editCall' \in {"_storeEdit", "_discardEdit"} /\ currentEdit # null) =>
          /\ currentEdit' = null
          /\ ~scopeActive'
          /\ invoked' = Invoke(invoked, Len(started),
                               IF editCall' = "_storeEdit" THEN "store" ELSE "discard")]_vars
  /\ [](\A i \in 1..MaxEdits : invoked[i].store + invoked[i].discard <= 1)

\* C30 witness: the first edit was discarded and the second one stored by the last
\* call, which left the discard callback of the second edit in place, uncalled
C30_Witness ==
  /\ Len(started) = 2 /\ currentEdit = null /\ editCall = "_storeEdit"
  /\ invoked[1] = [store |-> 0, discard |-> 1]
  /\ invoked[2] = [store |-> 1, discard |-> 0]
  /\ currentEditDiscardCallBack = 2 /\ currentEditCallBack = NoCallBack

====
